---- MODULE Spec2Model ----
(***************************************************************************)
(* Model of batchglm's data utilities and data validation:                 *)
(*   - validate_data and AbstractEstimator.validate_data                   *)
(*     (models/negative_binomial_mixture_linear_biased/base.py)            *)
(*   - design_matrix_from_dataset and load_recursive_mtx (data.py)         *)
(*   - the per-feature optimizer of the trainer (train/tf), whose code is  *)
(*     only imported by the files at hand                                  *)
(* Python values carry their type in a "type" field; a call's outcome      *)
(* carries the exception it raised in an "exc" field ("none" = returned).  *)
(* Strings that are sliced are sequences of one-character strings.         *)
(***************************************************************************)
EXTENDS Integers, Sequences, FiniteSets, TLC

VARIABLES
    input_data,   \* AbstractEstimator.input_data
    given_data,   \* the container the estimator was constructed with
    vpc,          \* "init" | "returned" | "raised": position of the validation call
    vcall,        \* "none" | "function" | "method": which validate_data ran
    verr,         \* exception the validation call raised ("none" when it did not)
    vret,         \* value validate_data returned
    stdout,       \* lines printed by validate_data
    heap,         \* xarray.Dataset objects by identity: 1 the caller's, 2 a copy
    dargs,        \* arguments of the design_matrix_from_dataset call
    dgiven,       \* the caller's dataset as it was before the call
    dpc,          \* "init" | "returned" | "raised"
    derr,         \* exception design_matrix_from_dataset raised
    dret,         \* identity of the dataset it returned (0: none)
    mtx_dirs,     \* the directories below the traversed one that hold a matrix.mtx
    margs,        \* arguments of the load_recursive_mtx call
    mpath,        \* load_recursive_mtx's local 'path'
    mpc,          \* "init" | "returned" | "raised"
    merr,         \* exception load_recursive_mtx raised
    adatas,       \* the dict load_recursive_mtx builds: key -> loaded data
    config,       \* optimizer configuration
    optimum,      \* per feature, the parameter value that maximises its likelihood
    theta,        \* Model Parameter Store: per feature, its parameter
    conv,         \* Convergence State: per feature, "UNCONVERGED" | "CONVERGED"
    diag,         \* per feature diagnostic: "none" | "DivergedFit" | "NonConvergence"
    feat_iter,    \* per feature, the iterations spent on it
    iteration,    \* iterations of the current optimizer invocation
    invocations,  \* optimizer invocations so far
    evaluated,    \* features the last iteration evaluated and updated
    opc           \* "running" | "done"

vvars == <<input_data, given_data, vpc, vcall, verr, vret, stdout>>
dvars == <<heap, dargs, dgiven, dpc, derr, dret>>
mvars == <<mtx_dirs, margs, mpath, mpc, merr, adatas>>
ovars == <<config, optimum, theta, conv, diag, feat_iter, iteration, invocations,
           evaluated, opc>>

(***************************************************************************)
(* Bounds of the validation inputs                                         *)
(***************************************************************************)
MaxSamples == 4
Features == {1, 2}
Counts == {0, 3}
DesignRows == {<<1, 0>>, <<1, 1>>}

NoneValue == [type |-> "NoneType"]
Bool(b) == [type |-> "bool", val |-> b]
NDArray(s) == [type |-> "ndarray", data |-> s]
Tuple(s) == [type |-> "tuple", items |-> s]
Returned(v) == [exc |-> "none", val |-> v]
Raised(e) == [exc |-> e, val |-> NoneValue]

RECURSIVE SeqSum(_)
SeqSum(s) == IF s = <<>> THEN 0 ELSE s[1] + SeqSum(Tail(s))

(***************************************************************************)
(* numpy                                                                   *)
(***************************************************************************)
\* lexicographic order of two rows of equal length
RowLess(a, b) ==
    \E k \in 1..Len(a) :
        /\ k <= Len(b)
        /\ a[k] < b[k]
        /\ \A j \in 1..(k - 1) : a[j] = b[j]

\* np.unique(design, axis=-2, return_inverse=True)[1]: for every row, the
\* 0-based index of that row among the sorted unique rows
unique_inverse(design) ==
    LET rows == {design[k] : k \in 1..Len(design)}
    IN  [k \in 1..Len(design) |->
            Cardinality({r \in rows : RowLess(r, design[k])})]

\* np.unique(partitions): the distinct values
np_unique(partitions) == {partitions[k] : k \in 1..Len(partitions)}

RECURSIVE TakeRows(_, _)
TakeRows(arr, mask) ==
    IF arr = <<>> THEN <<>>
    ELSE (IF mask[1] THEN <<arr[1]>> ELSE <<>>) \o TakeRows(Tail(arr), Tail(mask))

\* arr[mask, :] for a boolean mask: the mask must be as long as the array
\* (variant: an indexing that pairs mask and rows up to the shorter length)
bool_index_unchecked(arr, mask) ==
    LET n == IF Len(mask) < Len(arr) THEN Len(mask) ELSE Len(arr)
    IN  Returned(TakeRows(SubSeq(arr, 1, n), SubSeq(mask, 1, n)))
bool_index(arr, mask) ==
    IF Len(mask) # Len(arr) THEN Raised("IndexError")
    ELSE Returned(TakeRows(arr, mask))

\* np.mean(data, -2)[f] and np.var(data, -2)[f] as exact fractions
Column(data, f) == [k \in 1..Len(data) |-> data[k][f]]
np_mean(col) == [num |-> SeqSum(col), den |-> Len(col)]
np_var(col) ==
    LET n == Len(col)
        s == SeqSum(col)
    IN  [num |-> SeqSum([k \in 1..n |-> (n * col[k] - s) * (n * col[k] - s)]),
         den |-> n * n * n]
FracLess(a, b) == a.num * b.den < b.num * a.den

\* np.mean(data, -2) < np.var(data, -2)
\* (variant: the comparison taken as <=)
MeanLeVar(data) ==
    [f \in Features |-> ~FracLess(np_var(Column(data, f)), np_mean(Column(data, f)))]
MeanLtVar(data) ==
    [f \in Features |-> FracLess(np_mean(Column(data, f)), np_var(Column(data, f)))]

\* np.all(np.asarray(smpls), 0)
np_all(smpls) == [f \in Features |-> \A i \in DOMAIN smpls : smpls[i][f]]

RECURSIVE IndicesWhere(_, _)
IndicesWhere(flags, k) ==
    IF k > Len(flags) THEN <<>>
    ELSE (IF flags[k] THEN <<k - 1>> ELSE <<>>) \o IndicesWhere(flags, k + 1)

\* np.where(cond) with one argument: a tuple holding one index array per dimension
\* (variant: the index array itself, as np.flatnonzero gives it)
np_where_flat(cond) == NDArray(IndicesWhere(cond, 1))
np_where(cond) == Tuple(<<NDArray(IndicesWhere(cond, 1))>>)

\* obj.size
\* (variant: a size that counts the items of a tuple)
getattr_size_len(obj) ==
    IF obj.type = "ndarray" THEN Returned(Len(obj.data)) ELSE Returned(Len(obj.items))
getattr_size(obj) ==
    IF obj.type = "ndarray" THEN Returned(Len(obj.data))
    ELSE Raised("AttributeError")

\* "...%s" % obj: a tuple supplies the arguments, anything else is the argument
format_percent_s(obj) ==
    IF obj.type = "tuple"
    THEN (IF Len(obj.items) = 1 THEN Returned(obj.items[1].data) ELSE Raised("TypeError"))
    ELSE Returned(obj.data)

(***************************************************************************)
(* validate_data(input_data)                                               *)
(***************************************************************************)
validate_data(d) ==
    LET partitions == unique_inverse(d.design)
        ids == np_unique(partitions)
        data == [i \in ids |->
                    bool_index(d.sample_data,
                               [k \in 1..Len(partitions) |-> partitions[k] = i])]
    IN  IF \E i \in ids : data[i].exc # "none"
        THEN [exc |-> "IndexError", out |-> <<>>, val |-> NoneValue]
        ELSE
            LET smpls == np_all([i \in ids |-> MeanLtVar(data[i].val)])
                removed_smpls == np_where([f \in Features |-> smpls[f] = FALSE])
                line == format_percent_s(removed_smpls)
                size == getattr_size(removed_smpls)
            IN  IF line.exc # "none"
                THEN [exc |-> line.exc, out |-> <<>>, val |-> NoneValue]
                ELSE IF size.exc # "none"
                THEN [exc |-> size.exc, out |-> <<line.val>>, val |-> NoneValue]
                ELSE [exc |-> "none", out |-> <<line.val>>, val |-> Bool(size.val = 0)]

InputData(sample_data, design) ==
    [type |-> "InputData", sample_data |-> sample_data, design |-> design]

ValidInputs ==
    { InputData(s, d) :
        s \in UNION {[1..n -> [Features -> Counts]] : n \in 1..MaxSamples},
        d \in UNION {[1..r -> DesignRows] : r \in 1..MaxSamples} }

\* a direct call of the module-level function on the estimator's data
CallValidateData ==
    /\ vpc = "init"
    /\ LET r == validate_data(input_data)
       IN  /\ vpc' = IF r.exc = "none" THEN "returned" ELSE "raised"
           /\ verr' = r.exc
           /\ vret' = r.val
           /\ stdout' = r.out
    /\ vcall' = "function"
    /\ UNCHANGED <<input_data, given_data>>
    /\ UNCHANGED <<dvars, mvars, ovars>>

\* AbstractEstimator.validate_data: self.input_data = validate_data(self.input_data)
AbstractEstimator_validate_data ==
    /\ vpc = "init"
    /\ LET r == validate_data(input_data)
       IN  /\ vpc' = IF r.exc = "none" THEN "returned" ELSE "raised"
           /\ verr' = r.exc
           /\ stdout' = r.out
           /\ input_data' = IF r.exc = "none" THEN r.val ELSE input_data
    /\ vcall' = "method"
    /\ UNCHANGED <<given_data, vret>>
    /\ UNCHANGED <<dvars, mvars, ovars>>

VNext == CallValidateData \/ AbstractEstimator_validate_data

(***************************************************************************)
(* design_matrix_from_dataset                                              *)
(***************************************************************************)
None == "None"
FormulaBatch == "~ 1 + batch"
FormulaCondition == "~ 1 + batch + condition"
FormulaMalformed == "~ 1 + batch +"
Formulas == {FormulaBatch, FormulaCondition, FormulaMalformed}
FormulaKeys == {"formula", "model"}
DesignKeys == {"design", "batch"}
VariableNames == {"batch", "condition", "design"}
Missing == [type |-> "missing"]
DataArray(name) == [type |-> "DataArray", name |-> name]
Unallocated == [type |-> "unallocated"]

\* patsy.ModelDesc.from_formula(formula) and the names of its factors
\* (_factors_from_formula); a formula patsy cannot parse raises PatsyError
_factors_from_formula(formula) ==
    IF formula = FormulaBatch THEN Returned({"batch"})
    ELSE IF formula = FormulaCondition THEN Returned({"batch", "condition"})
    ELSE Raised("PatsyError")

\* design_matrix(sample_description, formula): patsy.dmatrix evaluates every
\* factor of the formula in the data frame and fails on a name it lacks
design_matrix(sample_description, formula) ==
    LET factors == _factors_from_formula(formula)
    IN  IF factors.exc # "none" THEN factors
        ELSE IF ~(factors.val \subseteq sample_description) THEN Raised("PatsyError")
        ELSE Returned([type |-> "DesignMatrix", formula |-> formula,
                       columns |-> sample_description])

\* dataset.attrs.get(formula_key)
attrs_get(dataset, key) == dataset.attrs[key]

\* if formula is None: formula = dataset.attrs.get(formula_key)
\* (variant: the dataset attribute taken before the parameter)
ChooseFormulaAttrFirst(formula, dataset, formula_key) ==
    IF attrs_get(dataset, formula_key) # None THEN attrs_get(dataset, formula_key)
    ELSE formula
ChooseFormula(formula, dataset, formula_key) ==
    IF formula = None THEN attrs_get(dataset, formula_key) ELSE formula

\* if not inplace: dataset = dataset.copy()  -- the object written from here on
\* (variant: no copy is made)
TargetAlwaysCaller(inplace) == 1
Target(inplace) == IF inplace THEN 1 ELSE 2

Datasets ==
    { [type |-> "Dataset", attrs |-> a, variables |-> v] :
        a \in [FormulaKeys -> Formulas \cup {None}],
        v \in { w \in [VariableNames -> {Missing} \cup {DataArray(n) : n \in VariableNames}] :
                  /\ w["batch"] = DataArray("batch")
                  /\ w["condition"] \in {Missing, DataArray("condition")}
                  /\ w["design"] \in {Missing, DataArray("design")} } }

NoArgs == [formula |-> None, formula_key |-> "formula", design_key |-> "design",
           inplace |-> FALSE]

design_matrix_from_dataset(formula, formula_key, design_key, inplace) ==
    /\ dpc = "init"
    /\ dargs' = [formula |-> formula, formula_key |-> formula_key,
                 design_key |-> design_key, inplace |-> inplace]
    /\ LET t == Target(inplace)
           copied == IF t = 1 THEN heap ELSE [heap EXCEPT ![t] = heap[1]]
           dataset == copied[t]
           chosen == ChooseFormula(formula, dataset, formula_key)
           factors == _factors_from_formula(chosen)
           present == {n \in VariableNames : dataset.variables[n] # Missing}
           explanatory_vars == IF factors.exc = "none" THEN present \cap factors.val ELSE {}
           matrix == design_matrix(explanatory_vars, chosen)
           failure == IF chosen = None THEN "ValueError"
                      ELSE IF factors.exc # "none" THEN factors.exc
                      ELSE matrix.exc
       IN  IF failure # "none"
           THEN /\ heap' = copied
                /\ dpc' = "raised"
                /\ derr' = failure
                /\ dret' = 0
           ELSE /\ heap' = [copied EXCEPT ![t].variables[design_key] = matrix.val,
                                          ![t].attrs[formula_key] = chosen]
                /\ dpc' = "returned"
                /\ derr' = "none"
                /\ dret' = t
    /\ UNCHANGED dgiven
    /\ UNCHANGED <<vvars, mvars, ovars>>

DNext ==
    \E formula \in Formulas \cup {None}, formula_key \in FormulaKeys,
       design_key \in DesignKeys, inplace \in BOOLEAN :
        design_matrix_from_dataset(formula, formula_key, design_key, inplace)

(***************************************************************************)
(* load_recursive_mtx                                                      *)
(* A path is a sequence of characters; a directory below the traversed one *)
(* is the sequence of the names leading to it.                             *)
(***************************************************************************)
Sep == "/"
NameC == <<"c">>
NameD == <<"d">>
NameCD == <<"c", "d">>
Names == {NameC, NameD, NameCD}
\* the directory tree below the traversed directory
AllDirs == {<<>>, <<NameC>>, <<NameD>>, <<NameCD>>, <<NameC, NameD>>}
HomeDir == <<"/", "h">>
TempDir == <<"/", "t">>
\* spellings of the traversed directory, and a zip file of it
PathSpellings ==
    { <<"r">>, <<"r", "/">>, <<".", "/", "r">>, <<"~", "/", "r">>,
      <<"r", ".", "z", "i", "p">> }
TargetFormats == {"xarray", "XArray", "adata", "csv"}

Front(s) == SubSeq(s, 1, Len(s) - 1)
Last(s) == s[Len(s)]
\* s[k:] with k counted from 0
SliceFrom(s, k) == SubSeq(s, k + 1, Len(s))
EndsWith(s, suffix) ==
    /\ Len(s) >= Len(suffix)
    /\ SubSeq(s, Len(s) - Len(suffix) + 1, Len(s)) = suffix

\* os.path.expanduser
expanduser(p) ==
    IF Len(p) >= 1 /\ p[1] = "~" /\ (Len(p) = 1 \/ p[2] = Sep)
    THEN HomeDir \o Tail(p)
    ELSE p

\* os.path.join(a, b) on posix
path_join(a, b) ==
    IF Len(b) >= 1 /\ b[1] = Sep THEN b
    ELSE IF a = <<>> \/ Last(a) = Sep THEN a \o b
    ELSE a \o <<Sep>> \o b

\* the 'root' os.walk(top) yields for a directory: top itself, and
\* os.path.join(root of the parent, name) below it
RECURSIVE WalkRoot(_, _)
WalkRoot(top, dir) ==
    IF dir = <<>> THEN top ELSE path_join(WalkRoot(top, Front(dir)), Last(dir))

Children(dir) == {d \in AllDirs : Len(d) = Len(dir) + 1 /\ Front(d) = dir}

\* os.walk(top), top-down: a directory, then the walks of its subdirectories
\* in the order os.listdir gave them (rank: name -> position)
RECURSIVE WalkDirs(_, _)
RECURSIVE WalkAll(_, _)
WalkAll(dirs, rank) ==
    IF dirs = {} THEN <<>>
    ELSE LET first == CHOOSE d \in dirs : \A e \in dirs : rank[Last(d)] <= rank[Last(e)]
         IN  WalkDirs(first, rank) \o WalkAll(dirs \ {first}, rank)
WalkDirs(dir, rank) == <<dir>> \o WalkAll(Children(dir), rank)

str_lower(s) == IF s = "XArray" THEN "xarray" ELSE s

\* load_mtx_to_xarray(root) / load_mtx_to_adata(root): the data of that directory
load_mtx(format, dir) ==
    [type |-> IF format = "xarray" THEN "DataArray" ELSE "AnnData", dir |-> dir]

\* adatas[root[len(path) + 1:]] = ad
KeyOf(root, path) == SliceFrom(root, Len(path) + 1)

Put(dict, key, value) ==
    [k \in DOMAIN dict \cup {key} |-> IF k = key THEN value ELSE dict[k]]

\* the loop over os.walk(path): the dict after the directories of 'walk'
RECURSIVE LoadAll(_, _, _, _, _)
LoadAll(walk, path, format, holds_mtx, dict) ==
    IF walk = <<>> THEN [exc |-> "none", val |-> dict]
    ELSE IF walk[1] \notin holds_mtx
    THEN LoadAll(Tail(walk), path, format, holds_mtx, dict)
    ELSE IF str_lower(format) \notin {"xarray", "adata"}
    THEN [exc |-> "RuntimeError", val |-> dict]
    ELSE LoadAll(Tail(walk), path, format, holds_mtx,
                 Put(dict, KeyOf(WalkRoot(path, walk[1]), path),
                     load_mtx(str_lower(format), walk[1])))

EmptyDict == [k \in {} |-> NoneValue]
NoMtxArgs == [dir_or_zipfile |-> <<>>, target_format |-> "xarray"]

load_recursive_mtx(dir_or_zipfile, target_format, rank) ==
    /\ mpc = "init"
    /\ margs' = [dir_or_zipfile |-> dir_or_zipfile, target_format |-> target_format]
    /\ LET expanded == expanduser(dir_or_zipfile)
           path == IF EndsWith(expanded, <<".", "z", "i", "p">>) THEN TempDir ELSE expanded
           r == LoadAll(WalkDirs(<<>>, rank), path, target_format, mtx_dirs, EmptyDict)
       IN  /\ mpath' = path
           /\ adatas' = r.val
           /\ merr' = r.exc
           /\ mpc' = IF r.exc = "none" THEN "returned" ELSE "raised"
    /\ UNCHANGED mtx_dirs
    /\ UNCHANGED <<vvars, dvars, ovars>>

ListdirOrders == {rank \in [Names -> 1..Cardinality(Names)] :
                    \A a, b \in Names : a # b => rank[a] # rank[b]}

MNext ==
    \E dir_or_zipfile \in PathSpellings, target_format \in TargetFormats,
       rank \in ListdirOrders :
        load_recursive_mtx(dir_or_zipfile, target_format, rank)

(***************************************************************************)
(* Optimizer / Trainer: one parameter per feature, a concave likelihood    *)
(* with its maximum at optimum[f]                                          *)
(***************************************************************************)
MaxTheta == 3
MaxIterations == 3
FeatureBudget == 2
InitialStep == 2
MaxInvocations == 2
OptFeatures == {1, 2}
Tolerances == {1, 2}

Abs(x) == IF x < 0 THEN -x ELSE x
Sign(x) == IF x < 0 THEN -1 ELSE IF x > 0 THEN 1 ELSE 0

\* Likelihood & Gradient Engine
LogLik(f, t) == -((t - optimum[f]) * (t - optimum[f]))
Gradient(f, t) == 2 * (optimum[f] - t)
NewtonStep(f, t) == t + Gradient(f, t) \div 2

\* gradient step, its length halved until the likelihood does not decrease
RECURSIVE DampedStep(_, _, _)
DampedStep(f, t, step) ==
    IF step = 0 THEN t
    ELSE LET next == t + Sign(Gradient(f, t)) * step
         IN  IF LogLik(f, next) >= LogLik(f, t) THEN next
             ELSE DampedStep(f, t, step \div 2)

Update(f, nonpd) ==
    IF config.use_newton /\ f \notin nonpd THEN NewtonStep(f, theta[f])
    ELSE DampedStep(f, theta[f], InitialStep)

\* the features an iteration evaluates and updates
\* (variant: no feature is masked out)
EveryFeature == OptFeatures
ActiveFeatures == {f \in OptFeatures : conv[f] = "UNCONVERGED" /\ diag[f] # "DivergedFit"}

\* convergence test of a feature after its update from 'old' to 'new'
ConvergedAfter(f, old, new) ==
    \/ LogLik(f, new) - LogLik(f, old) < config.convergence_tolerance
    \/ Abs(Gradient(f, new)) < config.convergence_tolerance
    \/ feat_iter[f] + 1 >= FeatureBudget

\* one optimizer iteration; nonpd: features whose Hessian is not positive
\* definite this iteration, diverging: features whose likelihood becomes
\* non-finite
Iterate(nonpd, diverging) ==
    /\ opc = "running"
    /\ iteration < config.max_iterations
    /\ nonpd \subseteq ActiveFeatures
    /\ diverging \subseteq ActiveFeatures
    /\ LET active == ActiveFeatures
           new == [f \in OptFeatures |->
                     IF f \in active /\ f \notin diverging THEN Update(f, nonpd)
                     ELSE theta[f]]
       IN  /\ theta' = new
           /\ conv' = [f \in OptFeatures |->
                         IF f \in active /\ f \notin diverging
                            /\ ConvergedAfter(f, theta[f], new[f])
                         THEN "CONVERGED" ELSE conv[f]]
           /\ diag' = [f \in OptFeatures |->
                         IF f \in active /\ f \in diverging THEN "DivergedFit" ELSE diag[f]]
           /\ feat_iter' = [f \in OptFeatures |->
                              IF f \in active THEN feat_iter[f] + 1 ELSE feat_iter[f]]
           /\ evaluated' = active
    /\ iteration' = iteration + 1
    /\ UNCHANGED <<config, optimum, invocations, opc>>
    /\ UNCHANGED <<vvars, dvars, mvars>>

\* terminal state: all features CONVERGED, or the iteration cap reached
Finish ==
    /\ opc = "running"
    /\ \/ \A f \in OptFeatures : conv[f] = "CONVERGED"
       \/ iteration >= config.max_iterations
    /\ diag' = [f \in OptFeatures |->
                  IF conv[f] = "UNCONVERGED" /\ diag[f] = "none"
                  THEN "NonConvergence" ELSE diag[f]]
    /\ evaluated' = {}
    /\ opc' = "done"
    /\ UNCHANGED <<config, optimum, theta, conv, feat_iter, iteration, invocations>>
    /\ UNCHANGED <<vvars, dvars, mvars>>

\* the optimizer invoked again on the feature set as it stands
Invoke ==
    /\ opc = "done"
    /\ invocations < MaxInvocations
    /\ invocations' = invocations + 1
    /\ iteration' = 0
    /\ evaluated' = {}
    /\ opc' = "running"
    /\ UNCHANGED <<config, optimum, theta, conv, diag, feat_iter>>
    /\ UNCHANGED <<vvars, dvars, mvars>>

ONext ==
    \/ \E nonpd \in SUBSET OptFeatures, diverging \in SUBSET OptFeatures :
          Iterate(nonpd, diverging)
    \/ Finish
    \/ Invoke

\* initial states of the validation component; the other components are not in use
VInit ==
    /\ input_data \in ValidInputs
    /\ given_data = input_data
    /\ vpc = "init"
    /\ vcall = "none"
    /\ verr = "none"
    /\ vret = NoneValue
    /\ stdout = <<>>
    /\ heap = <<Unallocated, Unallocated>>
    /\ dargs = NoArgs
    /\ dgiven = Unallocated
    /\ dpc = "idle"
    /\ derr = "none"
    /\ dret = 0
    /\ mtx_dirs = {}
    /\ margs = NoMtxArgs
    /\ mpath = <<>>
    /\ mpc = "idle"
    /\ merr = "none"
    /\ adatas = EmptyDict
    /\ config = [use_newton |-> FALSE, convergence_tolerance |-> 1, max_iterations |-> 0]
    /\ optimum = <<>>
    /\ theta = <<>>
    /\ conv = <<>>
    /\ diag = <<>>
    /\ feat_iter = <<>>
    /\ iteration = 0
    /\ invocations = 0
    /\ evaluated = {}
    /\ opc = "idle"

\* initial states of the design matrix component; the other components are not in use
DInit ==
    /\ heap \in {[i \in {1, 2} |-> IF i = 1 THEN ds ELSE Unallocated] : ds \in Datasets}
    /\ dargs = NoArgs
    /\ dgiven = heap[1]
    /\ dpc = "init"
    /\ derr = "none"
    /\ dret = 0
    /\ input_data = NoneValue
    /\ given_data = NoneValue
    /\ vpc = "idle"
    /\ vcall = "none"
    /\ verr = "none"
    /\ vret = NoneValue
    /\ stdout = <<>>
    /\ mtx_dirs = {}
    /\ margs = NoMtxArgs
    /\ mpath = <<>>
    /\ mpc = "idle"
    /\ merr = "none"
    /\ adatas = EmptyDict
    /\ config = [use_newton |-> FALSE, convergence_tolerance |-> 1, max_iterations |-> 0]
    /\ optimum = <<>>
    /\ theta = <<>>
    /\ conv = <<>>
    /\ diag = <<>>
    /\ feat_iter = <<>>
    /\ iteration = 0
    /\ invocations = 0
    /\ evaluated = {}
    /\ opc = "idle"

\* initial states of the mtx loader component; the other components are not in use
MInit ==
    /\ mtx_dirs \in SUBSET AllDirs
    /\ margs = NoMtxArgs
    /\ mpath = <<>>
    /\ mpc = "init"
    /\ merr = "none"
    /\ adatas = EmptyDict
    /\ input_data = NoneValue
    /\ given_data = NoneValue
    /\ vpc = "idle"
    /\ vcall = "none"
    /\ verr = "none"
    /\ vret = NoneValue
    /\ stdout = <<>>
    /\ heap = <<Unallocated, Unallocated>>
    /\ dargs = NoArgs
    /\ dgiven = Unallocated
    /\ dpc = "idle"
    /\ derr = "none"
    /\ dret = 0
    /\ config = [use_newton |-> FALSE, convergence_tolerance |-> 1, max_iterations |-> 0]
    /\ optimum = <<>>
    /\ theta = <<>>
    /\ conv = <<>>
    /\ diag = <<>>
    /\ feat_iter = <<>>
    /\ iteration = 0
    /\ invocations = 0
    /\ evaluated = {}
    /\ opc = "idle"

\* initial states of the optimizer component; the other components are not in use
OInit ==
    /\ config \in [use_newton : BOOLEAN, convergence_tolerance : Tolerances,
                   max_iterations : 1..MaxIterations]
    /\ optimum \in [OptFeatures -> 0..MaxTheta]
    /\ theta \in [OptFeatures -> 0..MaxTheta]
    /\ conv = [f \in OptFeatures |-> "UNCONVERGED"]
    /\ diag = [f \in OptFeatures |-> "none"]
    /\ feat_iter = [f \in OptFeatures |-> 0]
    /\ iteration = 0
    /\ invocations = 1
    /\ evaluated = {}
    /\ opc = "running"
    /\ input_data = NoneValue
    /\ given_data = NoneValue
    /\ vpc = "idle"
    /\ vcall = "none"
    /\ verr = "none"
    /\ vret = NoneValue
    /\ stdout = <<>>
    /\ heap = <<Unallocated, Unallocated>>
    /\ dargs = NoArgs
    /\ dgiven = Unallocated
    /\ dpc = "idle"
    /\ derr = "none"
    /\ dret = 0
    /\ mtx_dirs = {}
    /\ margs = NoMtxArgs
    /\ mpath = <<>>
    /\ mpc = "idle"
    /\ merr = "none"
    /\ adatas = EmptyDict

vars == <<vvars, dvars, mvars, ovars>>

SpecValidate == VInit /\ [][VNext]_vars
SpecDesign == DInit /\ [][DNext]_vars
SpecMtx == MInit /\ [][MNext]_vars
SpecOptimizer == OInit /\ [][ONext]_vars

(***************************************************************************)
(* Properties of the validation                                            *)
(***************************************************************************)
RECURSIVE SetSum(_, _, _)
SetSum(S, col, sq) ==
    IF S = {} THEN 0
    ELSE LET k == CHOOSE x \in S : TRUE
         IN  (IF sq THEN col[k] * col[k] ELSE col[k]) + SetSum(S \ {k}, col, sq)

ShapesMatch == Len(given_data.design) = Len(given_data.sample_data)
SamePattern(k) == {j \in 1..Len(given_data.design) : given_data.design[j] = given_data.design[k]}
\* mean >= variance of feature f over the samples P:
\* s/n >= q/n - (s/n)^2, with s the sum and q the sum of squares
MeanGeVarOver(P, f) ==
    LET col == Column(given_data.sample_data, f)
        n == Cardinality(P)
        s == SetSum(P, col, FALSE)
        q == SetSum(P, col, TRUE)
    IN  n * s >= n * q - s * s
Degenerate(f) == \E k \in 1..Len(given_data.design) : MeanGeVarOver(SamePattern(k), f)
ReportedFeatures == {stdout[1][k] + 1 : k \in 1..Len(stdout[1])}

\* C1: with matching shapes, the features validate_data reports are exactly
\* those whose mean is >= their variance in at least one partition of samples
\* with identical design rows.
C1_ReportsExactlyDegenerate ==
    (vpc # "init" /\ ShapesMatch) =>
        /\ Len(stdout) = 1
        /\ ReportedFeatures = {f \in Features : Degenerate(f)}
C1_Witness ==
    /\ vpc # "init" /\ ShapesMatch
    /\ Cardinality({given_data.design[k] : k \in 1..Len(given_data.design)}) = 2
    /\ Len(stdout) = 1
    /\ ReportedFeatures = {2}
    /\ \E k \in 1..Len(given_data.design) : ~MeanGeVarOver(SamePattern(k), 2)

\* C2 (as stated): a design matrix whose row count differs from the sample
\* count makes validation fail with a ValidationError.
C2_Original_ValidationError ==
    (vpc # "init" /\ ~ShapesMatch) => (vpc = "raised" /\ verr = "ValidationError")
\* C2 (amended): such a call fails with an IndexError, raised by the boolean
\* mask indexing before anything is reported, returned or assigned.
C2_MismatchRaisesIndexError ==
    (vpc # "init" /\ ~ShapesMatch) =>
        /\ vpc = "raised" /\ verr = "IndexError"
        /\ stdout = <<>> /\ vret = NoneValue /\ input_data = given_data
C2_Witness ==
    /\ vpc = "raised" /\ verr = "IndexError"
    /\ Len(given_data.design) > Len(given_data.sample_data)

\* C3: after AbstractEstimator.validate_data has run, input_data is still the
\* container the estimator was given: same observations, same design matrix.
C3_InputDataKept ==
    (vcall = "method") =>
        /\ input_data = given_data
        /\ input_data.type = "InputData"
C3_Witness ==
    /\ vcall = "method" /\ ShapesMatch
    /\ Len(stdout) = 1 /\ ReportedFeatures = {1, 2}
    /\ input_data = given_data

GivenFormula ==
    IF dargs.formula # None THEN dargs.formula ELSE dgiven.attrs[dargs.formula_key]

C7_InplaceFrame ==
    (dpc # "init" /\ dpc # "idle") =>
        /\ ~dargs.inplace => heap[1] = dgiven
        /\ (~dargs.inplace /\ dpc = "returned") =>
              /\ dret = 2
              /\ heap[2].variables[dargs.design_key].type = "DesignMatrix"
              /\ heap[2].attrs[dargs.formula_key] = GivenFormula
        /\ (dargs.inplace /\ dpc = "returned") =>
              /\ dret = 1
              /\ heap[1].variables[dargs.design_key].type = "DesignMatrix"
              /\ heap[1].attrs[dargs.formula_key] = GivenFormula
              /\ heap[2] = Unallocated
C7_Witness ==
    /\ dpc = "returned" /\ ~dargs.inplace
    /\ dgiven.attrs[dargs.formula_key] = None
    /\ dgiven.variables[dargs.design_key] = Missing
    /\ heap[1] = dgiven
    /\ heap[2] # heap[1]

(***************************************************************************)
(* Properties of load_recursive_mtx                                        *)
(***************************************************************************)
\* the path of a directory relative to the traversed one: its names joined
\* by separators, empty for the traversed directory itself
RECURSIVE RelativePath(_)
RelativePath(dir) ==
    IF dir = <<>> THEN <<>>
    ELSE IF Len(dir) = 1 THEN dir[1]
    ELSE RelativePath(Front(dir)) \o <<Sep>> \o Last(dir)

KeysAreRelativePaths ==
    /\ DOMAIN adatas = {RelativePath(d) : d \in mtx_dirs}
    /\ Cardinality(DOMAIN adatas) = Cardinality(mtx_dirs)
    /\ \A d \in mtx_dirs : adatas[RelativePath(d)].dir = d

\* C8: the returned dict has exactly one entry per directory holding a
\* matrix.mtx, keyed by that directory's path relative to the traversed root,
\* however the root is written.
C8_OneEntryPerMtxDirectory == (mpc = "returned") => KeysAreRelativePaths

\* the same, for a root written without a trailing separator
C8_RelativeKeysWithoutTrailingSeparator ==
    (mpc = "returned" /\ Last(mpath) # Sep) => KeysAreRelativePaths

(***************************************************************************)
(* Properties of the optimizer                                             *)
(***************************************************************************)
\* C5: a CONVERGED feature stays CONVERGED, no later iteration evaluates or
\* updates it, and its parameter stays as it is, whatever the other
\* features do.
C5_ConvergedIsFinal ==
    [][\A f \in OptFeatures :
          conv[f] = "CONVERGED" =>
              /\ conv'[f] = "CONVERGED"
              /\ theta'[f] = theta[f]
              /\ f \notin evaluated']_vars
C5_Witness ==
    /\ opc = "running"
    /\ iteration >= 2
    /\ conv[1] = "CONVERGED" /\ theta[1] # optimum[1]
    /\ conv[2] = "UNCONVERGED"
    /\ evaluated = {2}
====
